---- MODULE Spec2Model ----
EXTENDS Integers, Sequences, FiniteSets, TLC

(***************************************************************************)
(* Configuration loading of netlify-cms-core (actions/config.js).          *)
(*                                                                         *)
(* JavaScript values are tagged records, so that values of different       *)
(* types are always comparable:                                            *)
(*   [undef], [null], [str |-> <<chars>>], [num], [bool]  primitives       *)
(*   [obj |-> f, keys |-> <<k1, ..>>]   plain object, keys in insertion    *)
(*                                      order (the order of Object.keys)   *)
(*   [arr |-> <<..>>]                   plain array                        *)
(*   [map |-> f], [list |-> <<..>>]     Immutable.Map / Immutable.List     *)
(*   [throw |-> name]                   an exception raised by a call      *)
(* A string is the sequence of its characters; property names are TLA+     *)
(* strings.                                                                *)
(***************************************************************************)

Undefined == [undef |-> TRUE]
Null == [null |-> TRUE]
Str(s) == [str |-> s]
Num(n) == [num |-> n]
Bool(b) == [bool |-> b]
Obj(keys, f) == [obj |-> f, keys |-> keys]
Arr(a) == [arr |-> a]
MapV(f) == [map |-> f]
ListV(l) == [list |-> l]
Throw(e) == [throw |-> e]

IsUndef(v) == "undef" \in DOMAIN v
IsNull(v) == "null" \in DOMAIN v
IsStr(v) == "str" \in DOMAIN v
IsNum(v) == "num" \in DOMAIN v
IsBool(v) == "bool" \in DOMAIN v
IsObj(v) == "obj" \in DOMAIN v
IsArr(v) == "arr" \in DOMAIN v
IsMap(v) == "map" \in DOMAIN v
IsList(v) == "list" \in DOMAIN v
IsThrow(v) == "throw" \in DOMAIN v

\* Immutable's isIterable: a Map or a List.
isIterable(v) == IsMap(v) \/ IsList(v)

\* JavaScript truthiness, as tested by `!x`, `x && y` and `if (x)`.
Truthy(v) ==
  IF IsUndef(v) \/ IsNull(v) THEN FALSE
  ELSE IF IsStr(v) THEN v.str # <<>>
  ELSE IF IsNum(v) THEN v.num # 0
  ELSE IF IsBool(v) THEN v.bool
  ELSE TRUE

\* The property name a string value denotes (config[CMS_ENV]).
RECURSIVE Key(_)
Key(s) == IF s = <<>> THEN "" ELSE Head(s) \o Key(Tail(s))

\* Some enumeration of a finite set (the iteration order of an Immutable.Map in toJS).
RECURSIVE SetToSeq(_)
SetToSeq(S) ==
  IF S = {} THEN <<>>
  ELSE LET x == CHOOSE y \in S : TRUE IN <<x>> \o SetToSeq(S \ {x})

Max(a, b) == IF a >= b THEN a ELSE b

\* o[k] on a JavaScript value: a TypeError on undefined and null, undefined
\* for a property the value does not have.
Prop(o, k) ==
  IF IsUndef(o) \/ IsNull(o) THEN Throw("TypeError")
  ELSE IF IsObj(o) THEN (IF k \in DOMAIN o.obj THEN o.obj[k] ELSE Undefined)
  ELSE IF IsArr(o) THEN
    (IF \E i \in DOMAIN o.arr : ToString(i - 1) = k
       THEN o.arr[CHOOSE i \in DOMAIN o.arr : ToString(i - 1) = k] ELSE Undefined)
  ELSE IF IsStr(o) THEN
    (IF \E i \in DOMAIN o.str : ToString(i - 1) = k
       THEN Str(<<o.str[CHOOSE i \in DOMAIN o.str : ToString(i - 1) = k]>>) ELSE Undefined)
  ELSE Undefined

\* Object.keys(v): own enumerable property names, in order.
ObjectKeys(v) ==
  IF IsObj(v) THEN v.keys
  ELSE IF IsArr(v) THEN [i \in DOMAIN v.arr |-> ToString(i - 1)]
  ELSE IF IsStr(v) THEN [i \in DOMAIN v.str |-> ToString(i - 1)]
  ELSE <<>>

\* o[k] = v on a plain object: an existing key keeps its place, a new one is appended.
ObjSet(o, k, v) ==
  Obj(IF k \in DOMAIN o.obj THEN o.keys ELSE Append(o.keys, k),
      [x \in DOMAIN o.obj \cup {k} |-> IF x = k THEN v ELSE o.obj[x]])

\* lodash omit(o, k): a copy of o without the property k.
omit(o, k) ==
  Obj(SelectSeq(o.keys, LAMBDA x : x # k), [x \in DOMAIN o.obj \ {k} |-> o.obj[x]])

\* Immutable fromJS: plain objects become Maps and arrays Lists, deeply.
RECURSIVE fromJS(_)
fromJS(v) ==
  IF IsObj(v) THEN MapV([k \in DOMAIN v.obj |-> fromJS(v.obj[k])])
  ELSE IF IsArr(v) THEN ListV([i \in DOMAIN v.arr |-> fromJS(v.arr[i])])
  ELSE v

\* Immutable toJS: Maps become plain objects and Lists arrays, deeply.
RECURSIVE toJS(_)
toJS(v) ==
  IF IsMap(v) THEN Obj(SetToSeq(DOMAIN v.map), [k \in DOMAIN v.map |-> toJS(v.map[k])])
  ELSE IF IsList(v) THEN Arr([i \in DOMAIN v.list |-> toJS(v.list[i])])
  ELSE v

\* Immutable Map get / has / set / delete.
Get(m, k) == IF k \in DOMAIN m.map THEN m.map[k] ELSE Undefined
Has(m, k) == k \in DOMAIN m.map
Set(m, k, v) == MapV([x \in DOMAIN m.map \cup {k} |-> IF x = k THEN v ELSE m.map[x]])

\* map.getIn([a, b]): undefined when the path leaves the Maps.
GetIn(m, a, b) ==
  LET inner == Get(m, a) IN IF IsMap(inner) THEN Get(inner, b) ELSE Undefined

\* map.setIn([a, b], v): creates the inner Map when a is not set, and fails
\* with "invalid keyPath" when a holds a value that is not a collection.
SetIn(m, a, b, v) ==
  IF ~Has(m, a) THEN Set(m, a, MapV((b :> v)))
  ELSE IF IsMap(Get(m, a)) THEN Set(m, a, Set(Get(m, a), b, v))
  ELSE Throw("Error")

\* Immutable (3.x) mergeDeep: keys of both sides; on a common key two
\* collections are merged recursively, otherwise the merged-in value wins.
\* Lists merge index by index.
RECURSIVE mergeDeep(_, _)
deepMerger(existing, value) ==
  IF isIterable(existing) /\ isIterable(value) THEN mergeDeep(existing, value) ELSE value

mergeDeep(a, b) ==
  IF IsMap(a) /\ IsMap(b) THEN
    MapV([k \in DOMAIN a.map \cup DOMAIN b.map |->
           IF k \notin DOMAIN b.map THEN a.map[k]
           ELSE IF k \notin DOMAIN a.map THEN b.map[k]
           ELSE deepMerger(a.map[k], b.map[k])])
  ELSE IF IsList(a) /\ IsList(b) THEN
    ListV([i \in 1..Max(Len(a.list), Len(b.list)) |->
           IF i > Len(b.list) THEN a.list[i]
           ELSE IF i > Len(a.list) THEN b.list[i]
           ELSE deepMerger(a.list[i], b.list[i])])
  ELSE IF IsMap(a) THEN
    mergeDeep(a, MapV([k \in {ToString(i - 1) : i \in DOMAIN b.list} |->
                        b.list[CHOOSE i \in DOMAIN b.list : ToString(i - 1) = k]]))
  ELSE
    mergeDeep(a, ListV([i \in 1..Cardinality(DOMAIN b.map) |->
                         b.map[SetToSeq(DOMAIN b.map)[i]]]))

(***************************************************************************)
(* lodash and String helpers used by config.js                             *)
(***************************************************************************)

RECURSIVE dropLeading(_, _)
dropLeading(s, c) == IF s # <<>> /\ Head(s) = c THEN dropLeading(Tail(s), c) ELSE s

\* lodash trimStart(v, '/'): v as a string ('' for undefined and null) without
\* its leading slashes. Collections are never passed here.
trimStart(v) ==
  IF IsStr(v) THEN Str(dropLeading(v.str, "/"))
  ELSE IF IsNum(v) THEN Str(<<ToString(v.num)>>)
  ELSE IF IsBool(v) THEN Str(IF v.bool THEN <<"t", "r", "u", "e">> ELSE <<"f", "a", "l", "s", "e">>)
  ELSE Str(<<>>)

LowerCase == <<"a", "b", "c", "d", "e", "f", "g", "h", "i", "j", "k", "l", "m",
               "n", "o", "p", "q", "r", "s", "t", "u", "v", "w", "x", "y", "z">>
UpperCase == <<"A", "B", "C", "D", "E", "F", "G", "H", "I", "J", "K", "L", "M",
               "N", "O", "P", "Q", "R", "S", "T", "U", "V", "W", "X", "Y", "Z">>

\* String.prototype.toUpperCase, character by character.
toUpperCase(s) ==
  Str([i \in DOMAIN s.str |->
        IF \E j \in DOMAIN LowerCase : LowerCase[j] = s.str[i]
          THEN UpperCase[CHOOSE j \in DOMAIN LowerCase : LowerCase[j] = s.str[i]]
          ELSE s.str[i]])

\* s.indexOf(sub) !== -1
Contains(s, sub) ==
  \E i \in 0..(Len(s) - Len(sub)) : SubSeq(s, i + 1, i + Len(sub)) = sub

\* lodash cloneDeep: a structurally equal copy (values here have no identity).
cloneDeep(v) == v

(***************************************************************************)
(* addLanguageFields (config.js 98-112)                                    *)
(***************************************************************************)

\* item.translate && name !== identifier && name !== 'body'
isTranslated(item, identifier) ==
  /\ Truthy(Prop(item, "translate"))
  /\ Prop(item, "name") # identifier
  /\ Prop(item, "name") # Str(<<"b", "o", "d", "y">>)

\* { ...omit(cloneDeep(item), 'translate'), label: lang.toUpperCase(), name: lang }
langField(item, lang) ==
  ObjSet(ObjSet(omit(cloneDeep(item), "translate"), "label", toUpperCase(lang)), "name", lang)

\* { ...omit(item, 'translate'), widget: 'object', fields: langFields }
newField(item, langs) ==
  ObjSet(ObjSet(omit(item, "translate"), "widget", Str(<<"o", "b", "j", "e", "c", "t">>)),
         "fields", Arr([i \in DOMAIN langs.arr |-> langField(item, langs.arr[i])]))

RECURSIVE reduceFields(_, _, _, _)
reduceFields(acc, items, langs, identifier) ==
  IF items = <<>> THEN acc
  ELSE LET item == Head(items) IN
       reduceFields(
         Append(acc, IF isTranslated(item, identifier) THEN newField(item, langs) ELSE item),
         Tail(items), langs, identifier)

\* fields.reduce(...) over an array of field objects. A field that is null or
\* undefined, a translated field with langs that is no array, or a language
\* that is no string raises a TypeError.
addLanguageFieldsMutDuplicate(fields, langs, identifier) ==
  Arr(reduceFields(<<>>, fields.arr, langs, identifier) \o
      SelectSeq(fields.arr, LAMBDA item : isTranslated(item, identifier)))

addLanguageFields(fields, langs, identifier) ==
  IF ~IsArr(fields) THEN Throw("TypeError")
  ELSE IF \E i \in DOMAIN fields.arr : IsUndef(fields.arr[i]) \/ IsNull(fields.arr[i])
    THEN Throw("TypeError")
  ELSE IF /\ \E i \in DOMAIN fields.arr : isTranslated(fields.arr[i], identifier)
          /\ (~IsArr(langs) \/ \E j \in DOMAIN langs.arr : ~IsStr(langs.arr[j]))
    THEN Throw("TypeError")
  ELSE Arr(reduceFields(<<>>, fields.arr, langs, identifier))

(***************************************************************************)
(* mergePreloadedConfig, parseConfig (config.js 114-127)                   *)
(***************************************************************************)

\* fromJS(loadedConfig) || Map(), merged into the preloaded Map when there is
\* one; a loaded value that is no collection cannot be merged (TypeError).
mergePreloadedConfigMutPreloadedWins(preloadedConfig, loadedConfig) ==
  LET map == IF Truthy(fromJS(loadedConfig)) THEN fromJS(loadedConfig) ELSE MapV(<<>>)
  IN IF ~Truthy(preloadedConfig) THEN map
     ELSE IF ~isIterable(map) THEN Throw("TypeError")
     ELSE mergeDeep(map, preloadedConfig)

mergePreloadedConfig(preloadedConfig, loadedConfig) ==
  LET map == IF Truthy(fromJS(loadedConfig)) THEN fromJS(loadedConfig) ELSE MapV(<<>>)
  IN IF ~Truthy(preloadedConfig) THEN map
     ELSE IF ~isIterable(map) THEN Throw("TypeError")
     ELSE mergeDeep(preloadedConfig, map)

\* A response text is [yaml |-> v], a text that yaml.safeLoad parses to v
\* (the empty text parses to undefined), or [malformed |-> TRUE], a text
\* that safeLoad rejects.
EmptyText == [yaml |-> Undefined]
safeLoad(data) == IF "malformed" \in DOMAIN data THEN Throw("YAMLException") ELSE data.yaml

\* Object.keys(config[CMS_ENV]).forEach(key => { config[key] = config[CMS_ENV][key]; }):
\* config[CMS_ENV] is read again for every key.
RECURSIVE hoistKeys(_, _, _)
hoistKeys(config, env, keys) ==
  IF keys = <<>> THEN config
  ELSE LET v == Prop(Prop(config, env), Head(keys)) IN
       IF IsThrow(v) THEN v
       ELSE hoistKeys(ObjSet(config, Head(keys), v), env, Tail(keys))

parseConfig(data, env) ==
  LET config == safeLoad(data) IN
  IF IsThrow(config) THEN config
  ELSE IF ~IsStr(env) THEN config
  ELSE LET entry == Prop(config, Key(env.str)) IN
       IF IsThrow(entry) THEN entry
       ELSE IF ~Truthy(entry) THEN config
       ELSE hoistKeys(config, Key(env.str), ObjectKeys(entry))

(***************************************************************************)
(* applyDefaults (config.js 26-96)                                         *)
(***************************************************************************)

defaults == MapV([publish_mode |-> Str(<<"s", "i", "m", "p", "l", "e">>)])

\* Reducers/collections selectIdentifier: the name of the collection's
\* identifier field.
selectIdentifier(collection) == Get(collection, "identifier_field")

\* Use `site_url` as default `display_url`.
withDisplayUrl(map) ==
  IF ~Truthy(Get(map, "display_url")) /\ Truthy(Get(map, "site_url"))
    THEN Set(map, "display_url", Get(map, "site_url"))
    ELSE map

\* withPublicFolder without the trimStart: "/" put in front of media_folder as it is.
withPublicFolderMutNoTrim(map) ==
  LET media == Get(map, "media_folder")
      defaultPublicFolder == Str(<<"/">> \o (IF IsStr(media) THEN media.str ELSE <<>>))
  IN IF ~Truthy(Get(map, "public_folder")) THEN Set(map, "public_folder", defaultPublicFolder)
     ELSE map

\* Use media_folder as default public_folder.
withPublicFolder(map) ==
  LET defaultPublicFolder == Str(<<"/">> \o trimStart(Get(map, "media_folder")).str)
  IN IF ~Truthy(Get(map, "public_folder")) THEN Set(map, "public_folder", defaultPublicFolder)
     ELSE map

\* if (!map.getIn(['slug', key])) map.setIn(['slug', key], value)
withSlugDefault(map, key, value) ==
  IF IsThrow(map) THEN map
  ELSE IF ~Truthy(GetIn(map, "slug", key)) THEN SetIn(map, "slug", key, value)
  ELSE map

withSlug(map) ==
  withSlugDefault(
    withSlugDefault(
      withSlugDefault(map, "encoding", Str(<<"u", "n", "i", "c", "o", "d", "e">>)),
      "clean_accents", Bool(FALSE)),
    "sanitize_replacement", Str(<<"-">>))

\* The folder branch of the collections map (config.js 64-82).
mapFolderCollection(collection, langs) ==
  LET folder == Get(collection, "folder")
      withMedia ==
        IF Has(collection, "path") /\ ~Has(collection, "media_folder")
          THEN Set(collection, "media_folder", Str(<<>>))
          ELSE collection
      fields == Get(withMedia, "fields")
      expanded ==
        IF ~isIterable(fields) \/ ~isIterable(langs) THEN Throw("TypeError")
        ELSE addLanguageFields(toJS(fields), toJS(langs), selectIdentifier(withMedia))
  IN IF Truthy(langs) /\ Truthy(fields) THEN
       (IF IsThrow(expanded) THEN expanded
        ELSE Set(Set(withMedia, "fields", fromJS(expanded)), "folder", trimStart(folder)))
     ELSE Set(withMedia, "folder", trimStart(folder))

\* The files branch (config.js 84-92); files is a List of Maps, anything
\* else that is truthy has no usable map/set and raises a TypeError.
mapFilesCollection(collection) ==
  LET files == Get(collection, "files") IN
  IF ~IsList(files) \/ \E i \in DOMAIN files.list : ~IsMap(files.list[i])
    THEN Throw("TypeError")
    ELSE Set(collection, "files",
             ListV([i \in DOMAIN files.list |->
                     Set(files.list[i], "file", trimStart(Get(files.list[i], "file")))]))

\* The callback of map.get('collections').map(...): a collection with neither
\* a folder nor files falls off the end of the callback and yields undefined.
mapCollection(collection, langs) ==
  IF ~IsMap(collection) THEN Throw("TypeError")
  ELSE IF Truthy(Get(collection, "folder")) THEN mapFolderCollection(collection, langs)
  ELSE IF Truthy(Get(collection, "files")) THEN mapFilesCollection(collection)
  ELSE Undefined

\* Strip leading slash from collection folders and files.
withCollections(map) ==
  LET langs == Get(map, "languages")
      collections == Get(map, "collections")
      mapped == [i \in DOMAIN collections.list |-> mapCollection(collections.list[i], langs)]
  IN IF IsThrow(map) THEN map
     ELSE IF ~IsList(collections) THEN Throw("TypeError")
     ELSE IF \E i \in DOMAIN mapped : IsThrow(mapped[i])
       THEN mapped[CHOOSE i \in DOMAIN mapped :
                     IsThrow(mapped[i]) /\ \A j \in 1..(i - 1) : ~IsThrow(mapped[j])]
     ELSE Set(map, "collections", ListV(mapped))

applyDefaults(config) ==
  withCollections(withSlug(withPublicFolder(withDisplayUrl(mergeDeep(defaults, config)))))

(***************************************************************************)
(* getConfigUrl, getConfig (config.js 14-24, 129-142)                      *)
(***************************************************************************)

YamlTypes == {<<"t", "e", "x", "t", "/", "y", "a", "m", "l">>,
              <<"a", "p", "p", "l", "i", "c", "a", "t", "i", "o", "n", "/", "x", "-", "y", "a", "m", "l">>}
ConfigYml == Str(<<"c", "o", "n", "f", "i", "g", ".", "y", "m", "l">>)

\* configLinkEl is null or [type |-> Str, href |-> Str].
getConfigUrl(configLinkEl) ==
  LET isValidLink == /\ ~IsNull(configLinkEl)
                     /\ configLinkEl.type.str \in YamlTypes
                     /\ Truthy(configLinkEl.href)
  IN IF isValidLink THEN configLinkEl.href ELSE ConfigYml

\* A response is [error |-> TRUE], the Error of a fetch that was rejected, or
\* [status, contentType, body]: contentType is the Content-Type header or
\* null, body the text of the response or [reject |-> TRUE] when reading it fails.
isError(response) == "error" \in DOMAIN response

isYaml(response) ==
  LET contentType == IF Truthy(response.contentType) THEN response.contentType
                     ELSE Str(<<"N", "o", "t", "-", "F", "o", "u", "n", "d">>)
  IN Contains(contentType.str, <<"y", "a", "m", "l">>)

\* Whether getConfig goes on to await response.text().
readsText(response, isPreloaded) ==
  /\ ~isError(response)
  /\ response.status = 200
  /\ (isYaml(response) \/ ~isPreloaded)

getConfig(response, isPreloaded, env) ==
  IF isError(response) \/ response.status # 200 THEN
    (IF isPreloaded THEN parseConfig(EmptyText, env) ELSE Throw("Failed to load config.yml"))
  ELSE IF ~isYaml(response) /\ isPreloaded THEN parseConfig(EmptyText, env)
  ELSE IF "reject" \in DOMAIN response.body THEN Throw("TypeError")
  ELSE parseConfig(response.body, env)

(***************************************************************************)
(* Action creators and loadConfig (config.js 9-12, 144-205)                *)
(***************************************************************************)

CONFIG_REQUEST == "CONFIG_REQUEST"
CONFIG_SUCCESS == "CONFIG_SUCCESS"
CONFIG_FAILURE == "CONFIG_FAILURE"
CONFIG_MERGE == "CONFIG_MERGE"
AUTHENTICATE_USER == "authenticateUser"

configLoaded(config) == [type |-> CONFIG_SUCCESS, payload |-> config]
configLoading == [type |-> CONFIG_REQUEST]
configFailed(err) == [type |-> CONFIG_FAILURE, error |-> "Error loading config", payload |-> err]
mergeConfig(config) == [type |-> CONFIG_MERGE, payload |-> config]
\* The thunk of Actions/auth, as seen by dispatch.
authenticateUser == [type |-> AUTHENTICATE_USER]

\* configDidLoad(config): the thunk dispatches configLoaded(config) and nothing else.
configDidLoad(config) == <<configLoaded(config)>>

\* Constants/configSchema validateConfig: throws unless `collections` is an
\* array of objects that each set exactly one of folder and files.
validateConfig(config) ==
  LET collections == Prop(config, "collections") IN
  IF /\ IsArr(collections)
     /\ \A i \in DOMAIN collections.arr :
          /\ IsObj(collections.arr[i])
          /\ ("folder" \in DOMAIN collections.arr[i].obj) # ("files" \in DOMAIN collections.arr[i].obj)
    THEN Undefined
    ELSE Throw("ValidationError")

\* The test written as !preloadedConfig.get('load_config_file'): a preloaded
\* configuration without the key skips the file too.
skipsConfigFileMutFalsy(preloadedConfig) ==
  Truthy(preloadedConfig) /\ ~Truthy(Get(preloadedConfig, "load_config_file"))

\* preloadedConfig && preloadedConfig.get('load_config_file') === false
skipsConfigFile(preloadedConfig) ==
  Truthy(preloadedConfig) /\ Get(preloadedConfig, "load_config_file") = Bool(FALSE)

\* preloadedConfig && preloadedConfig.size > 1
isPreloaded(preloadedConfig) ==
  Truthy(preloadedConfig) /\ Cardinality(DOMAIN preloadedConfig.map) > 1

AuthError == Throw("authenticateUser")
None == [none |-> TRUE]

\* The rest of the try block once loadedConfig is known (config.js 190-203):
\* the actions dispatched, in order, and the error rethrown (None when the
\* thunk's promise is fulfilled). loadedConfig is a thrown value when
\* getConfig threw; authThrows says whether dispatch(authenticateUser()) throws.
loadConfigSettleMutPublishFirst(preloadedConfig, loadedConfig, authThrows) ==
  LET mergedConfig == IF IsThrow(loadedConfig) THEN loadedConfig
                      ELSE mergePreloadedConfig(preloadedConfig, loadedConfig)
      valid == IF IsThrow(mergedConfig) THEN mergedConfig
               ELSE IF ~IsMap(mergedConfig) THEN Throw("TypeError")
               ELSE validateConfig(toJS(mergedConfig))
      config == IF IsThrow(valid) THEN valid ELSE applyDefaults(mergedConfig)
  IN IF IsThrow(mergedConfig) THEN [actions |-> <<configFailed(mergedConfig)>>, error |-> mergedConfig]
     ELSE IF IsThrow(config)
       THEN [actions |-> configDidLoad(mergedConfig) \o <<configFailed(config)>>, error |-> config]
     ELSE IF authThrows
       THEN [actions |-> configDidLoad(config) \o <<authenticateUser, configFailed(AuthError)>>,
             error |-> AuthError]
     ELSE [actions |-> configDidLoad(config) \o <<authenticateUser>>, error |-> None]

loadConfigSettle(preloadedConfig, loadedConfig, authThrows) ==
  LET mergedConfig == IF IsThrow(loadedConfig) THEN loadedConfig
                      ELSE mergePreloadedConfig(preloadedConfig, loadedConfig)
      valid == IF IsThrow(mergedConfig) THEN mergedConfig
               ELSE IF ~IsMap(mergedConfig) THEN Throw("TypeError")
               ELSE validateConfig(toJS(mergedConfig))
      config == IF IsThrow(valid) THEN valid ELSE applyDefaults(mergedConfig)
  IN IF IsThrow(config) THEN [actions |-> <<configFailed(config)>>, error |-> config]
     ELSE IF authThrows
       THEN [actions |-> configDidLoad(config) \o <<authenticateUser, configFailed(AuthError)>>,
             error |-> AuthError]
     ELSE [actions |-> configDidLoad(config) \o <<authenticateUser>>, error |-> None]

(***************************************************************************)
(* The values the model draws its inputs from                              *)
(***************************************************************************)

\* A plain object whose key order does not matter.
O(f) == Obj(SetToSeq(DOMAIN f), f)

Title == Str(<<"t", "i", "t", "l", "e">>)
Body == Str(<<"b", "o", "d", "y">>)
Slug == Str(<<"s", "l", "u", "g">>)
En == Str(<<"e", "n">>)
Fr == Str(<<"f", "r">>)
Git == Str(<<"g", "i", "t">>)
Uploads == Str(<<"u", "p", "l", "o", "a", "d", "s">>)
Static == Str(<<"/", "s", "t", "a", "t", "i", "c">>)
Prod == Str(<<"/", "p", "r", "o", "d">>)
SlashPosts == Str(<<"/", "p", "o", "s", "t", "s">>)
SlashAbout == Str(<<"/", "a", "b", "o", "u", "t">>)
Production == Str(<<"p", "r", "o", "d", "u", "c", "t", "i", "o", "n">>)
TextYaml == Str(<<"t", "e", "x", "t", "/", "y", "a", "m", "l">>)
TextHtml == Str(<<"t", "e", "x", "t", "/", "h", "t", "m", "l">>)
CustomUrl == Str(<<"c", "m", "s", ".", "y", "m", "l">>)

TitleField == O([name |-> Title, translate |-> Bool(TRUE)])
BodyField == O([name |-> Body, translate |-> Bool(TRUE)])
PostsCollection == O([folder |-> SlashPosts, identifier_field |-> Slug,
                      fields |-> Arr(<<TitleField, BodyField>>)])
PagesCollection == O([files |-> Arr(<<O([file |-> SlashAbout])>>)])

\* Documents a config.yml may hold.
DocFull == O([media_folder |-> Uploads, languages |-> Arr(<<En, Fr>>),
              collections |-> Arr(<<PostsCollection, PagesCollection>>)])
DocOverlay == O([media_folder |-> Uploads, collections |-> Arr(<<PagesCollection>>),
                 production |-> O([media_folder |-> Prod])])
DocNoCollections == O([media_folder |-> Uploads])
DocBadLanguages == O([languages |-> En, collections |-> Arr(<<PostsCollection>>)])

\* The texts of a response: empty, not YAML, a YAML scalar, the documents above.
Texts == {EmptyText, [malformed |-> TRUE], [yaml |-> Title], [yaml |-> DocFull],
          [yaml |-> DocOverlay], [yaml |-> DocNoCollections], [yaml |-> DocBadLanguages]}

\* What getState().config may hold when a load starts: nothing, a Map of one
\* key, or a configuration merged in earlier.
PreloadedFull == fromJS(O([backend |-> Git, media_folder |-> Static,
                           collections |-> Arr(<<PagesCollection>>)]))
PreloadedConfigs ==
  {Undefined,
   fromJS(O([backend |-> Git])),
   fromJS(O([backend |-> Git, media_folder |-> Static])),
   PreloadedFull,
   Set(PreloadedFull, "load_config_file", Bool(TRUE)),
   Set(PreloadedFull, "load_config_file", Bool(FALSE)),
   fromJS(O([backend |-> Git, load_config_file |-> Bool(FALSE)]))}

\* window.CMS_CONFIG: absent, a document the schema accepts, one it rejects.
InjectedConfigs == {Undefined, DocFull, DocNoCollections}

CmsEnvs == {Undefined, Production}

\* link[rel="cms-config-url"]: absent, a YAML link, a link of another type.
LinkEls == {Null, [type |-> TextYaml, href |-> CustomUrl], [type |-> TextHtml, href |-> CustomUrl]}

\* Responses without their body.
ResponseHeads ==
  {[error |-> TRUE], [status |-> 404, contentType |-> TextHtml]}
  \cup {[status |-> 200, contentType |-> c] : c \in {TextYaml, TextHtml, Null}}

WithBody(head, body) == [status |-> head.status, contentType |-> head.contentType, body |-> body]

(***************************************************************************)
(* AsyncLock (netlify-cms-lib-util asyncLock)                              *)
(***************************************************************************)

\* asyncLock(): a free lock nobody waits for. holders are the callers whose
\* acquire has resolved and who have not released; calls and grants record
\* the order of the acquire calls and of their resolutions.
asyncLock == [state |-> "free", waiters |-> <<>>, holders |-> {}, calls |-> <<>>, grants |-> <<>>]

\* acquire that looks at the waiters instead of the state: a caller arriving
\* at a held lock nobody waits for is let in.
acquireMutIgnoresHolder(l, caller) ==
  IF l.waiters = <<>>
    THEN [l EXCEPT !.state = "held", !.holders = @ \cup {caller},
                   !.calls = Append(@, caller), !.grants = Append(@, caller)]
    ELSE [l EXCEPT !.waiters = Append(@, caller), !.calls = Append(@, caller)]

\* acquire(): free -> held at once; on a held lock the caller is queued and
\* stays suspended.
acquire(l, caller) ==
  IF l.state = "free"
    THEN [l EXCEPT !.state = "held", !.holders = @ \cup {caller},
                   !.calls = Append(@, caller), !.grants = Append(@, caller)]
    ELSE [l EXCEPT !.waiters = Append(@, caller), !.calls = Append(@, caller)]

\* release by the holder: held -> free when nobody waits, otherwise the lock
\* passes to the first waiter and stays held.
release(l, caller) ==
  IF l.waiters = <<>>
    THEN [l EXCEPT !.state = "free", !.holders = @ \ {caller}]
    ELSE [l EXCEPT !.holders = (@ \ {caller}) \cup {Head(l.waiters)},
                   !.grants = Append(@, Head(l.waiters)),
                   !.waiters = Tail(@)]

(***************************************************************************)
(* State                                                                   *)
(***************************************************************************)

\* Number of loadConfig invocations.
MaxRuns == 2
Runs == 1..MaxRuns

VARIABLES
  CMS_CONFIG,    \* window.CMS_CONFIG
  CMS_ENV,       \* the build-time global CMS_ENV
  configLinkEl,  \* document.querySelector('link[rel="cms-config-url"]')
  pc,            \* per run: "idle", "fetch" (awaiting fetch), "text" (awaiting response.text()), "done"
  locals,        \* per run in flight: preloadedConfig and the response received
  dispatched,    \* the actions given to dispatch, in order, each with its run
  requests,      \* the fetches issued, in order, each with its run and url
  rejected,      \* per run: the error its promise was rejected with, or None
  settled,       \* the run that finished last, with what it read and received
  call,          \* a direct call of one exported or internal function, with its result
  lock           \* the AsyncLock instance: its state, waiters and history

vars == <<CMS_CONFIG, CMS_ENV, configLinkEl, pc, locals, dispatched, requests, rejected, settled, call, lock>>

Tag(r, actions) == [i \in DOMAIN actions |-> [run |-> r, action |-> actions[i]]]

InFlight(r) == pc[r] \in {"fetch", "text"}

InitFrom(injectedConfigs, cmsEnvs, linkEls) ==
  /\ CMS_CONFIG \in injectedConfigs
  /\ CMS_ENV \in cmsEnvs
  /\ configLinkEl \in linkEls
  /\ pc = [r \in Runs |-> "idle"]
  /\ locals = [r \in Runs |-> None]
  /\ dispatched = <<>>
  /\ requests = <<>>
  /\ rejected = [r \in Runs |-> None]
  /\ settled = None
  /\ call = None
  /\ lock = asyncLock

\* The run leaves the try block: it dispatches what loadConfigSettle says and
\* its promise is fulfilled or rejected.
Finish(r, preloadedConfig, response, loadedConfig, authThrows) ==
  LET out == loadConfigSettle(preloadedConfig, loadedConfig, authThrows) IN
  /\ dispatched' = dispatched \o Tag(r, out.actions)
  /\ rejected' = [rejected EXCEPT ![r] = out.error]
  /\ pc' = [pc EXCEPT ![r] = "done"]
  /\ locals' = [locals EXCEPT ![r] = None]
  /\ settled' = [run |-> r, stored |-> preloadedConfig, preloadedConfig |-> preloadedConfig,
                 response |-> response, loadedConfig |-> loadedConfig]

\* store.dispatch(loadConfig()), up to the first await (config.js 175-188).
\* getState().config is one of preloadedConfigs; the window.CMS_CONFIG path
\* does not read it (settled.stored is what the store held, settled.preloadedConfig
\* what the run read).
LoadConfig(r, preloadedConfigs) ==
  /\ pc[r] = "idle"
  /\ \A q \in Runs : q < r => pc[q] # "idle"
  /\ UNCHANGED <<CMS_CONFIG, CMS_ENV, configLinkEl, call, lock>>
  /\ \/ /\ Truthy(CMS_CONFIG)
        /\ dispatched' = dispatched \o Tag(r, configDidLoad(fromJS(CMS_CONFIG)))
        /\ pc' = [pc EXCEPT ![r] = "done"]
        /\ \E stored \in preloadedConfigs :
             settled' = [run |-> r, stored |-> stored, preloadedConfig |-> None,
                         response |-> None, loadedConfig |-> None]
        /\ UNCHANGED <<locals, requests, rejected>>
     \/ /\ ~Truthy(CMS_CONFIG)
        /\ \E preloadedConfig \in preloadedConfigs :
             IF skipsConfigFile(preloadedConfig)
               THEN /\ \E authThrows \in BOOLEAN :
                         LET out == loadConfigSettle(preloadedConfig, Obj(<<>>, <<>>), authThrows) IN
                         /\ dispatched' = dispatched \o Tag(r, <<configLoading>> \o out.actions)
                         /\ rejected' = [rejected EXCEPT ![r] = out.error]
                    /\ pc' = [pc EXCEPT ![r] = "done"]
                    /\ settled' = [run |-> r, stored |-> preloadedConfig,
                                   preloadedConfig |-> preloadedConfig,
                                   response |-> None, loadedConfig |-> Obj(<<>>, <<>>)]
                    /\ UNCHANGED <<locals, requests>>
               ELSE /\ dispatched' = dispatched \o Tag(r, <<configLoading>>)
                    /\ requests' = Append(requests, [run |-> r, url |-> getConfigUrl(configLinkEl)])
                    /\ pc' = [pc EXCEPT ![r] = "fetch"]
                    /\ locals' = [locals EXCEPT ![r] = [preloadedConfig |-> preloadedConfig]]
                    /\ UNCHANGED <<rejected, settled>>

\* The fetch promise settles (config.js 130-140) with one of responseHeads:
\* getConfig either finishes without the body or goes on to await response.text().
FetchSettled(r, responseHeads) ==
  /\ pc[r] = "fetch"
  /\ UNCHANGED <<CMS_CONFIG, CMS_ENV, configLinkEl, requests, call, lock>>
  /\ \E head \in responseHeads :
       LET preloadedConfig == locals[r].preloadedConfig IN
       IF readsText(head, isPreloaded(preloadedConfig))
         THEN /\ pc' = [pc EXCEPT ![r] = "text"]
              /\ locals' = [locals EXCEPT ![r] = [preloadedConfig |-> preloadedConfig, response |-> head]]
              /\ UNCHANGED <<dispatched, rejected, settled>>
         ELSE \E authThrows \in BOOLEAN :
                Finish(r, preloadedConfig, head,
                       getConfig(head, isPreloaded(preloadedConfig), CMS_ENV), authThrows)

\* response.text() settles (config.js 141) with one of texts, or is rejected,
\* and the rest of the try block runs.
TextSettled(r, texts) ==
  /\ pc[r] = "text"
  /\ UNCHANGED <<CMS_CONFIG, CMS_ENV, configLinkEl, requests, call, lock>>
  /\ \E body \in texts \cup {[reject |-> TRUE]}, authThrows \in BOOLEAN :
       LET preloadedConfig == locals[r].preloadedConfig
           response == WithBody(locals[r].response, body)
       IN Finish(r, preloadedConfig, response,
                 getConfig(response, isPreloaded(preloadedConfig), CMS_ENV), authThrows)

(***************************************************************************)
(* Spec: up to MaxRuns overlapping loads, over a few inputs that tell the   *)
(* runs apart. SpecLoad: one load, over every input above.                 *)
(***************************************************************************)

Init == InitFrom({Undefined, DocNoCollections}, {Undefined}, {Null})

Next ==
  \E r \in Runs :
    \/ LoadConfig(r, {Undefined, PreloadedFull})
    \/ FetchSettled(r, {[error |-> TRUE], [status |-> 200, contentType |-> TextYaml]})
    \/ TextSettled(r, {[yaml |-> DocFull], [yaml |-> DocOverlay]})

Spec == Init /\ [][Next]_vars

InitLoad == InitFrom(InjectedConfigs, CmsEnvs, LinkEls)

NextLoad ==
  \/ LoadConfig(1, PreloadedConfigs)
  \/ FetchSettled(1, ResponseHeads)
  \/ TextSettled(1, Texts)

SpecLoad == InitLoad /\ [][NextLoad]_vars

(***************************************************************************)
(* Properties of loadConfig                                                *)
(***************************************************************************)

\* The actions run r has dispatched, in order.
RunActions(r) ==
  LET own == SelectSeq(dispatched, LAMBDA d : d.run = r)
  IN [i \in DOMAIN own |-> own[i].action]

RunTypes(r) == [i \in DOMAIN RunActions(r) |-> RunActions(r)[i].type]

\* The run that finished last took the network path.
NetworkSettled == settled # None /\ settled.preloadedConfig # None

\* The first error raised by getConfig (fetch, parse), the merge, validateConfig
\* or applyDefaults for what the settled run read and received; None if none.
StepError ==
  LET loaded == settled.loadedConfig
      merged == mergePreloadedConfig(settled.preloadedConfig, loaded)
  IN IF IsThrow(loaded) THEN loaded
     ELSE IF IsThrow(merged) THEN merged
     ELSE IF ~IsMap(merged) THEN Throw("TypeError")
     ELSE IF IsThrow(validateConfig(toJS(merged))) THEN validateConfig(toJS(merged))
     ELSE IF IsThrow(applyDefaults(merged)) THEN applyDefaults(merged)
     ELSE None

\* C1: a run on the network path in which the fetch, the parse, the merge,
\* validateConfig or applyDefaults throws dispatches CONFIG_REQUEST and then
\* CONFIG_FAILURE carrying that error, rethrows it, and dispatches nothing
\* else: no CONFIG_SUCCESS, no CONFIG_MERGE, no authenticateUser.
C1_FailedLoadPublishesNothing ==
  /\ (NetworkSettled /\ StepError # None) =>
       /\ rejected[settled.run] = StepError
       /\ RunActions(settled.run) = <<configLoading, configFailed(StepError)>>
  /\ \A r \in Runs :
       (rejected[r] # None /\ rejected[r] # AuthError) =>
         /\ RunActions(r) = <<configLoading, configFailed(rejected[r])>>
         /\ \A i \in DOMAIN RunTypes(r) :
              RunTypes(r)[i] \notin {CONFIG_SUCCESS, CONFIG_MERGE, AUTHENTICATE_USER}

\* A load with a preloaded configuration whose merged document the schema rejects.
C1_Witness ==
  /\ NetworkSettled
  /\ isPreloaded(settled.preloadedConfig)
  /\ rejected[settled.run] = Throw("ValidationError")
  /\ RunTypes(settled.run) = <<CONFIG_REQUEST, CONFIG_FAILURE>>

\* C2: at most one load is in flight (between its CONFIG_REQUEST and its
\* terminal dispatch) at any time.
C2_AtMostOneInFlight ==
  \A r1, r2 \in Runs : (InFlight(r1) /\ InFlight(r2)) => r1 = r2

\* C3: with window.CMS_CONFIG present no fetch is issued and every
\* configuration published by CONFIG_SUCCESS has passed validateConfig.
C3_InjectedConfigValidated ==
  Truthy(CMS_CONFIG) =>
    /\ requests = <<>>
    /\ \A i \in DOMAIN dispatched :
         dispatched[i].action.type = CONFIG_SUCCESS =>
           ~IsThrow(validateConfig(toJS(dispatched[i].action.payload)))

\* C4: every CONFIG_SUCCESS and CONFIG_FAILURE is preceded by a
\* CONFIG_REQUEST of the same run, on either path.
C4_RequestBeforeTerminal ==
  \A i \in DOMAIN dispatched :
    dispatched[i].action.type \in {CONFIG_SUCCESS, CONFIG_FAILURE} =>
      \E j \in 1..(i - 1) :
        /\ dispatched[j].run = dispatched[i].run
        /\ dispatched[j].action.type = CONFIG_REQUEST

\* C5: a run that has finished and dispatched CONFIG_SUCCESS has dispatched
\* authenticateUser after it, on either path, and authenticateUser is never
\* dispatched by a run before its CONFIG_SUCCESS (so never by a run without one).
C5_AuthenticateAfterSuccess ==
  \A i \in DOMAIN dispatched :
    /\ (dispatched[i].action.type = CONFIG_SUCCESS /\ pc[dispatched[i].run] = "done") =>
         \E j \in (i + 1)..Len(dispatched) :
           /\ dispatched[j].run = dispatched[i].run
           /\ dispatched[j].action.type = AUTHENTICATE_USER
    /\ dispatched[i].action.type = AUTHENTICATE_USER =>
         \E j \in 1..(i - 1) :
           /\ dispatched[j].run = dispatched[i].run
           /\ dispatched[j].action.type = CONFIG_SUCCESS

\* The settled run's fetch failed in transport or came back with a status other than 200.
FetchFailed ==
  /\ NetworkSettled
  /\ settled.response # None
  /\ (isError(settled.response) \/ settled.response.status # 200)

\* The preloaded configuration alone passes validateConfig and applyDefaults.
PreloadedUsable(preloadedConfig) ==
  /\ ~IsThrow(validateConfig(toJS(preloadedConfig)))
  /\ ~IsThrow(applyDefaults(preloadedConfig))

\* C6: a failed fetch fails the load when no preloaded configuration exists;
\* with a preloaded configuration of more than one key (one that is itself a
\* valid configuration) the load succeeds for every CMS_ENV and publishes the
\* preloaded configuration with defaults applied.
C6_FetchFailureFallsBackToPreloaded ==
  FetchFailed =>
    IF isPreloaded(settled.preloadedConfig)
      THEN PreloadedUsable(settled.preloadedConfig) =>
             \E i \in DOMAIN RunActions(settled.run) :
               RunActions(settled.run)[i] = configLoaded(applyDefaults(settled.preloadedConfig))
      ELSE /\ rejected[settled.run] # None
           /\ \A i \in DOMAIN RunTypes(settled.run) : RunTypes(settled.run)[i] # CONFIG_SUCCESS

\* The settled run received a 200 response whose Content-Type has no "yaml".
NotYamlReceived ==
  /\ NetworkSettled
  /\ settled.response # None
  /\ ~isError(settled.response)
  /\ settled.response.status = 200
  /\ ~isYaml(settled.response)

\* C9: on a 200 response that is not YAML, a load with a preloaded
\* configuration uses the empty document as the loaded one (the body is not
\* read); without a preloaded configuration the body is parsed as it would
\* be under a YAML content type.
C9_NotYamlResponse ==
  NotYamlReceived =>
    IF isPreloaded(settled.preloadedConfig)
      THEN /\ settled.loadedConfig = Undefined
           /\ "body" \notin DOMAIN settled.response
      ELSE settled.loadedConfig =
             getConfig([settled.response EXCEPT !.contentType = TextYaml], FALSE, CMS_ENV)

(***************************************************************************)
(* Direct calls of mergePreloadedConfig, parseConfig and addLanguageFields *)
(***************************************************************************)

\* Sequences over S of length at most n, and those without a repeated element.
SeqsUpTo(S, n) == UNION {[1..k -> S] : k \in 0..n}
Range(q) == {q[i] : i \in DOMAIN q}
DistinctSeqsUpTo(S, n) == {q \in SeqsUpTo(S, n) : Cardinality(Range(q)) = Len(q)}

\* No load is running; one call of a function is pending.
InitCall(calls) ==
  /\ CMS_CONFIG = Undefined
  /\ CMS_ENV = Undefined
  /\ configLinkEl = Null
  /\ pc = [r \in Runs |-> "idle"]
  /\ locals = [r \in Runs |-> None]
  /\ dispatched = <<>>
  /\ requests = <<>>
  /\ rejected = [r \in Runs |-> None]
  /\ settled = None
  /\ call \in calls
  /\ lock = asyncLock

Pending(fn) == call # None /\ call.fn = fn /\ call.result = None
Returned(fn) == call # None /\ call.fn = fn /\ call.result # None

Return(result) ==
  /\ call' = [call EXCEPT !.result = result]
  /\ UNCHANGED <<CMS_CONFIG, CMS_ENV, configLinkEl, pc, locals, dispatched, requests, rejected, settled, lock>>

\* --- mergePreloadedConfig(preloadedConfig, loadedConfig) ---

MergeKeys == {"a", "b", "c"}
NestedXY == O([x |-> Num(1), y |-> Num(2)])
NestedYZ == O([y |-> Num(3), z |-> Num(4)])
PreloadedValues == {Num(1), Num(2), NestedXY}
LoadedValues == {Num(3), Num(4), NestedYZ}

\* The plain objects with keys among MergeKeys and values among V.
ObjectsOver(V) ==
  UNION {{O(f) : f \in [K -> V]} : K \in SUBSET MergeKeys}

MergeCalls ==
  {[fn |-> "mergePreloadedConfig", args |-> <<p, l>>, result |-> None] :
     p \in {Undefined} \cup {fromJS(o) : o \in ObjectsOver(PreloadedValues)},
     l \in {Undefined} \cup ObjectsOver(LoadedValues)}

CallMergePreloadedConfig ==
  /\ Pending("mergePreloadedConfig")
  /\ Return(mergePreloadedConfig(call.args[1], call.args[2]))

SpecMerge == InitCall(MergeCalls) /\ [][CallMergePreloadedConfig]_vars

\* --- parseConfig(data) under a CMS_ENV ---

\* Longest list of children of an environment entry.
MaxChildren == 2

Staging == Str(<<"s", "t", "a", "g", "i", "n", "g">>)

\* The value of child k of an environment entry; self is the value of a
\* child that is named like the environment.
ChildValue(k, self) == IF k = "a" THEN Num(2) ELSE IF k = "b" THEN Num(3) ELSE self

EnvEntries ==
  {Obj(ks, [k \in Range(ks) |-> ChildValue(k, self)]) :
     ks \in DistinctSeqsUpTo({"a", "b", "production"}, MaxChildren),
     self \in {Num(5), Null, O([a |-> Num(7)])}}
  \cup {Null, Num(0), Bool(TRUE), Str(<<>>)}

\* A top-level document: `a`, `production` and `staging`, each optional.
TopDoc(hasA, production, hasStaging) ==
  LET keys == (IF hasA THEN <<"a">> ELSE <<>>)
              \o (IF production # None THEN <<"production">> ELSE <<>>)
              \o (IF hasStaging THEN <<"staging">> ELSE <<>>)
  IN Obj(keys, [k \in Range(keys) |->
                 IF k = "a" THEN Num(1)
                 ELSE IF k = "production" THEN production
                 ELSE O([b |-> Num(9)])])

ParseTexts ==
  {EmptyText, [malformed |-> TRUE], [yaml |-> Title]}
  \cup {[yaml |-> TopDoc(hasA, production, hasStaging)] :
          hasA \in BOOLEAN, production \in EnvEntries \cup {None}, hasStaging \in BOOLEAN}

ParseCalls ==
  {[fn |-> "parseConfig", args |-> <<data, env>>, result |-> None] :
     data \in ParseTexts, env \in {Undefined, Production, Staging}}

CallParseConfig ==
  /\ Pending("parseConfig")
  /\ Return(parseConfig(call.args[1], call.args[2]))

SpecParse == InitCall(ParseCalls) /\ [][CallParseConfig]_vars

\* --- addLanguageFields(fields, langs, identifier) ---

\* Longest fields list and longest languages list.
MaxFields == 2
MaxLangs == 2

FieldShapes ==
  {O([name |-> Title, translate |-> Bool(TRUE), widget |-> Str(<<"s", "t", "r">>), label |-> Title]),
   O([name |-> Title]),
   O([name |-> Title, translate |-> Bool(FALSE)]),
   O([name |-> Body, translate |-> Bool(TRUE)]),
   O([name |-> Slug, translate |-> Bool(TRUE)])}

LangCalls ==
  {[fn |-> "addLanguageFields", args |-> <<Arr(fields), Arr(langs), identifier>>, result |-> None] :
     fields \in SeqsUpTo(FieldShapes, MaxFields),
     langs \in SeqsUpTo({En, Fr}, MaxLangs),
     identifier \in {Slug, Title, Undefined}}

CallAddLanguageFields ==
  /\ Pending("addLanguageFields")
  /\ Return(addLanguageFields(call.args[1], call.args[2], call.args[3]))

SpecLang == InitCall(LangCalls) /\ [][CallAddLanguageFields]_vars

(***************************************************************************)
(* Properties of mergePreloadedConfig, parseConfig and addLanguageFields   *)
(***************************************************************************)

\* The loaded document as a Map: the empty Map when nothing was loaded.
LoadedMap(l) == IF Truthy(l) THEN fromJS(l) ELSE MapV(<<>>)

C8_OverlayHoisted ==
  (Returned("parseConfig") /\ ~IsThrow(safeLoad(call.args[1]))) =>
    LET doc == safeLoad(call.args[1])
        env == call.args[2]
        result == call.result
        hasKey == IsStr(env) /\ IsObj(doc) /\ Key(env.str) \in DOMAIN doc.obj
    IN IF ~hasKey THEN result = doc
       ELSE IsObj(doc.obj[Key(env.str)]) =>
              LET entry == doc.obj[Key(env.str)] IN
              /\ IsObj(result)
              /\ DOMAIN result.obj = DOMAIN doc.obj \cup DOMAIN entry.obj
              /\ \A k \in DOMAIN entry.obj : result.obj[k] = entry.obj[k]
              /\ \A k \in DOMAIN doc.obj \ DOMAIN entry.obj : result.obj[k] = doc.obj[k]

\* The label the claim gives a language code.
UpperCode(lang) == IF lang = En THEN Str(<<"E", "N">>) ELSE Str(<<"F", "R">>)

\* The properties of item, without translate, renamed and relabelled for lang.
SubFieldOf(item, lang) ==
  [k \in (DOMAIN item.obj \ {"translate"}) \cup {"name", "label"} |->
     IF k = "name" THEN lang ELSE IF k = "label" THEN UpperCode(lang) ELSE item.obj[k]]

\* item is marked translate and is neither the identifier field nor `body`.
Expands(item, identifier) ==
  /\ "translate" \in DOMAIN item.obj
  /\ item.obj.translate = Bool(TRUE)
  /\ item.obj.name # identifier
  /\ item.obj.name # Body

\* C10: addLanguageFields returns a list of the length and order of its
\* input; a field that expands is replaced by one wrapper of widget `object`
\* with the same name, no translate marker and one sub-field per language in
\* language order, each the original field without translate, named with the
\* code and labelled with the uppercased code; every other field is unchanged.
C10_LanguageExpansion ==
  Returned("addLanguageFields") =>
    LET fields == call.args[1].arr
        langs == call.args[2].arr
        identifier == call.args[3]
        result == call.result
    IN /\ IsArr(result)
       /\ Len(result.arr) = Len(fields)
       /\ \A i \in DOMAIN fields :
            IF Expands(fields[i], identifier) THEN
              LET wrapper == result.arr[i] IN
              /\ IsObj(wrapper)
              /\ wrapper.obj.name = fields[i].obj.name
              /\ wrapper.obj.widget = Str(<<"o", "b", "j", "e", "c", "t">>)
              /\ "translate" \notin DOMAIN wrapper.obj
              /\ IsArr(wrapper.obj.fields)
              /\ Len(wrapper.obj.fields.arr) = Len(langs)
              /\ \A j \in DOMAIN langs :
                   wrapper.obj.fields.arr[j].obj = SubFieldOf(fields[i], langs[j])
            ELSE result.arr[i] = fields[i]

\* languages [en, fr] and a translated `title` before `body`, identifier `slug`.
C10_Witness ==
  /\ Returned("addLanguageFields")
  /\ call.args[2] = Arr(<<En, Fr>>)
  /\ call.args[3] = Slug
  /\ Len(call.args[1].arr) = 2
  /\ Expands(call.args[1].arr[1], Slug)
  /\ call.args[1].arr[2].obj.name = Body
  /\ Len(call.result.arr) = 2
  /\ call.result.arr[1].obj.fields.arr[2].obj.label = Str(<<"F", "R">>)
  /\ call.result.arr[2] = call.args[1].arr[2]


(***************************************************************************)
(* Direct calls of applyDefaults                                           *)
(***************************************************************************)

Empty == Str(<<>>)
Simple == Str(<<"s", "i", "m", "p", "l", "e">>)
EditorialWorkflow == Str(<<"e", "d", "i", "t", "o", "r", "i", "a", "l", "_", "w", "o", "r", "k", "f", "l", "o", "w">>)
Unicode == Str(<<"u", "n", "i", "c", "o", "d", "e">>)
Ascii == Str(<<"a", "s", "c", "i", "i">>)
Dash == Str(<<"-">>)
Underscore == Str(<<"_">>)
SiteUrl == Str(<<"h", "t", "t", "p", "s", ":", "/", "/", "a", ".", "i", "o">>)
DisplayUrl == Str(<<"h", "t", "t", "p", "s", ":", "/", "/", "b", ".", "i", "o">>)
SlashUploads == Str(<<"/", "u", "p", "l", "o", "a", "d", "s">>)
TwoSlashUploads == Str(<<"/", "/", "u", "p", "l", "o", "a", "d", "s">>)
Posts == Str(<<"p", "o", "s", "t", "s">>)
TwoSlashPosts == Str(<<"/", "/", "p", "o", "s", "t", "s">>)
About == Str(<<"a", "b", "o", "u", "t">>)
Img == Str(<<"/", "i", "m", "g">>)
SlugIndex == Str(<<"{", "{", "s", "l", "u", "g", "}", "}", "/", "i", "n", "d", "e", "x">>)

\* Longest collections list.
MaxCollections == 2

\* A key that is absent, or present with one of values.
Opt(key, values) == {<<>>} \cup {(key :> v) : v \in values}

\* The slug settings a configuration may carry: none, empty, or one sub-key,
\* set to a truthy or to a falsy value.
SlugSettings ==
  Opt("slug", {MapV(<<>>),
               MapV([encoding |-> Ascii]), MapV([encoding |-> Empty]),
               MapV([clean_accents |-> Bool(TRUE)]), MapV([clean_accents |-> Bool(FALSE)]),
               MapV([sanitize_replacement |-> Underscore]),
               MapV([sanitize_replacement |-> Empty])})

\* Configurations that differ in their top-level keys.
TopConfigs ==
  {MapV(pm @@ du @@ su @@ pf @@ sl @@ ("media_folder" :> mf) @@ ("collections" :> ListV(<<>>))) :
     pm \in Opt("publish_mode", {EditorialWorkflow, Empty}),
     du \in Opt("display_url", {DisplayUrl, Empty}),
     su \in Opt("site_url", {SiteUrl}),
     pf \in Opt("public_folder", {Static, Empty}),
     sl \in SlugSettings,
     mf \in {Uploads, SlashUploads, TwoSlashUploads}}

\* Collections: folder collections (with and without path, media_folder and
\* fields), files collections, a collection with an empty folder string and
\* one with neither a folder nor files. Each has its own name.
CollectionShapes ==
  {O([name |-> Str(<<"a">>), folder |-> SlashPosts, identifier_field |-> Slug,
      fields |-> Arr(<<TitleField, BodyField>>)]),
   O([name |-> Str(<<"b">>), folder |-> Posts, path |-> SlugIndex]),
   O([name |-> Str(<<"c">>), folder |-> TwoSlashPosts, path |-> SlugIndex, media_folder |-> Img]),
   O([name |-> Str(<<"d">>), files |-> Arr(<<O([file |-> SlashAbout, name |-> About])>>)]),
   O([name |-> Str(<<"e">>), path |-> SlugIndex,
      files |-> Arr(<<O([file |-> About]), O([file |-> SlashAbout])>>)]),
   O([name |-> Str(<<"f">>), folder |-> Empty]),
   O([name |-> Str(<<"g">>)])}

\* Configurations that differ in their collections and languages.
CollectionConfigs ==
  {MapV(la @@ ("media_folder" :> Uploads) @@ ("collections" :> fromJS(Arr(cs)))) :
     la \in Opt("languages", {fromJS(Arr(<<En, Fr>>))}),
     cs \in SeqsUpTo(CollectionShapes, MaxCollections)}

DefaultsCalls ==
  {[fn |-> "applyDefaults", args |-> <<config>>, result |-> None] :
     config \in TopConfigs \cup CollectionConfigs}

CallApplyDefaults ==
  /\ Pending("applyDefaults")
  /\ Return(applyDefaults(call.args[1]))

SpecDefaults == InitCall(DefaultsCalls) /\ [][CallApplyDefaults]_vars


(***************************************************************************)
(* Properties of applyDefaults                                             *)
(***************************************************************************)

SlugKeys == {"encoding", "clean_accents", "sanitize_replacement"}

\* The configuration supplies slug.key.
HasSlug(config, key) ==
  Has(config, "slug") /\ IsMap(Get(config, "slug")) /\ Has(Get(config, "slug"), key)

\* The default the claim gives slug.key.
SlugDefault(key) ==
  IF key = "encoding" THEN Unicode
  ELSE IF key = "clean_accents" THEN Bool(FALSE)
  ELSE Dash

\* C11: applyDefaults leaves every supplied value of publish_mode,
\* display_url, public_folder and the three slug sub-keys as it is, falsy
\* values included, and fills each absent one with its default: simple,
\* site_url (when set), unicode, false and '-'.
C11_DefaultsOnlyWhereAbsent ==
  Returned("applyDefaults") =>
    LET config == call.args[1]
        out == call.result
    IN /\ IsMap(out)
       /\ \A k \in {"publish_mode", "display_url", "public_folder"} :
            Has(config, k) => Get(out, k) = Get(config, k)
       /\ \A k \in SlugKeys :
            GetIn(out, "slug", k) = IF HasSlug(config, k) THEN GetIn(config, "slug", k)
                                    ELSE SlugDefault(k)
       /\ ~Has(config, "publish_mode") => Get(out, "publish_mode") = Simple
       /\ (~Has(config, "display_url") /\ Has(config, "site_url")) =>
            Get(out, "display_url") = Get(config, "site_url")

\* t is s without its leading slashes.
StripsTo(s, t) ==
  \E n \in 0..Len(s) :
    /\ \A i \in 1..n : s[i] = "/"
    /\ t = SubSeq(s, n + 1, Len(s))
    /\ (t = <<>> \/ t[1] # "/")

SameKey(c, o, k) == Has(c, k) = Has(o, k) /\ Get(c, k) = Get(o, k)

\* o is the file c with its path stripped and nothing else changed.
FileStripped(c, o) ==
  /\ IsMap(o)
  /\ DOMAIN o.map = DOMAIN c.map
  /\ StripsTo(Get(c, "file").str, Get(o, "file").str)
  /\ \A k \in DOMAIN c.map \ {"file"} : SameKey(c, o, k)

\* o is the collection c as the claim describes the output, for a
\* configuration with or without languages.
CollectionStripped(c, o, hasLangs) ==
  /\ IsMap(o)
  /\ \A k \in (DOMAIN c.map \cup DOMAIN o.map) \ {"folder", "files", "media_folder", "fields"} :
       SameKey(c, o, k)
  /\ (~hasLangs \/ ~Has(c, "folder")) => SameKey(c, o, "fields")
  /\ IF Has(c, "folder")
       THEN /\ StripsTo(Get(c, "folder").str, Get(o, "folder").str)
            /\ SameKey(c, o, "files")
            /\ IF Has(c, "path") /\ ~Has(c, "media_folder")
                 THEN Get(o, "media_folder") = Empty
                 ELSE SameKey(c, o, "media_folder")
       ELSE /\ SameKey(c, o, "folder")
            /\ SameKey(c, o, "media_folder")
            /\ IF Has(c, "files")
                 THEN LET files == Get(c, "files").list
                          outFiles == Get(o, "files")
                      IN /\ IsList(outFiles)
                         /\ Len(outFiles.list) = Len(files)
                         /\ \A j \in DOMAIN files : FileStripped(files[j], outFiles.list[j])
                 ELSE SameKey(c, o, "files")

\* C13: in the output every collection is the input collection with the
\* leading slashes of its folder path (folder collection) or of each file's
\* path (files collection) removed, media_folder set to '' when a folder
\* collection has path but no media_folder, and no other key changed apart
\* from the language expansion of fields.
C13_CollectionPathsStripped ==
  Returned("applyDefaults") =>
    LET collections == Get(call.args[1], "collections").list
        out == Get(call.result, "collections")
    IN /\ IsList(out)
       /\ Len(out.list) = Len(collections)
       /\ \A i \in DOMAIN collections :
            CollectionStripped(collections[i], out.list[i], Has(call.args[1], "languages"))

\* C18: the output collections list has the length and order of the input
\* (each collection keeps its name), none of its elements is undefined, and
\* each has exactly one of folder and files set.
C18_EveryCollectionMapped ==
  Returned("applyDefaults") =>
    LET collections == Get(call.args[1], "collections").list
        out == Get(call.result, "collections")
    IN /\ IsList(out)
       /\ Len(out.list) = Len(collections)
       /\ \A i \in DOMAIN collections :
            /\ ~IsUndef(out.list[i])
            /\ IsMap(out.list[i])
            /\ Get(out.list[i], "name") = Get(collections[i], "name")
            /\ Truthy(Get(out.list[i], "folder")) # Truthy(Get(out.list[i], "files"))

\* C19: applying applyDefaults to its own output gives that output again.
C19_ApplyDefaultsIdempotent ==
  (Returned("applyDefaults") /\ IsList(Get(call.args[1], "collections"))) =>
    applyDefaults(call.result) = call.result


(***************************************************************************)
(* SpecLock: callers of one AsyncLock                                      *)
(***************************************************************************)

\* Number of callers, and of acquire calls in all.
MaxCallers == 3
MaxAcquires == 4
Callers == 1..MaxCallers

Waiting(caller) == \E i \in DOMAIN lock.waiters : lock.waiters[i] = caller

LockUnchanged ==
  UNCHANGED <<CMS_CONFIG, CMS_ENV, configLinkEl, pc, locals, dispatched, requests, rejected,
              settled, call>>

\* A caller that neither holds the lock nor waits for it calls acquire().
Acquire(caller) ==
  /\ caller \notin lock.holders
  /\ ~Waiting(caller)
  /\ Len(lock.calls) < MaxAcquires
  /\ lock' = acquire(lock, caller)
  /\ LockUnchanged

\* A holder calls release().
Release(caller) ==
  /\ caller \in lock.holders
  /\ lock' = release(lock, caller)
  /\ LockUnchanged

NextLock == \E caller \in Callers : Acquire(caller) \/ Release(caller)

SpecLock == InitFrom({Undefined}, {Undefined}, {Null}) /\ [][NextLock]_vars

IsPrefix(p, q) == Len(p) <= Len(q) /\ SubSeq(q, 1, Len(p)) = p

\* C14: at most one caller holds the lock; the lock is free only when nobody
\* holds it or waits for it (a caller that finds it held stays suspended, a
\* release with a waiter queued hands the lock over); the acquire calls are
\* resolved in the order in which they were made.
C14_LockMutualExclusionFifo ==
  /\ Cardinality(lock.holders) <= 1
  /\ (lock.state = "free") = (lock.holders = {})
  /\ lock.state = "free" => lock.waiters = <<>>
  /\ \A caller \in Callers : Waiting(caller) => caller \notin lock.holders
  /\ IsPrefix(lock.grants, lock.calls)
  /\ Len(lock.calls) = Len(lock.grants) + Len(lock.waiters)

\* Callers 1, 2, 3 called acquire in that order; 1 has released, 2 holds the
\* lock by hand-over and 3 still waits.
C14_Witness ==
  /\ lock.calls = <<1, 2, 3>>
  /\ lock.grants = <<1, 2>>
  /\ lock.holders = {2}
  /\ lock.waiters = <<3>>
  /\ lock.state = "held"


(***************************************************************************)
(* Further properties of loadConfig                                        *)
(***************************************************************************)

Terminals(r) ==
  {i \in DOMAIN RunTypes(r) : RunTypes(r)[i] \in {CONFIG_SUCCESS, CONFIG_FAILURE}}

\* C15: a finished run on the network path (one that began with
\* CONFIG_REQUEST) has dispatched exactly one of CONFIG_SUCCESS and
\* CONFIG_FAILURE, and no run ever dispatches CONFIG_FAILURE after its
\* CONFIG_SUCCESS.
C15_ExactlyOneTerminal ==
  \A r \in Runs :
    (RunTypes(r) # <<>> /\ RunTypes(r)[1] = CONFIG_REQUEST) =>
      /\ Cardinality(Terminals(r)) <= 1
      /\ pc[r] = "done" => Cardinality(Terminals(r)) = 1

\* The places of the CONFIG_SUCCESS actions in the log.
Successes == {i \in DOMAIN dispatched : dispatched[i].action.type = CONFIG_SUCCESS}

\* C16: the CONFIG_SUCCESS actions are dispatched in the order in which
\* their runs were started (run 1 before run 2), so once all runs are done
\* the last CONFIG_SUCCESS is that of the latest-started run that succeeded.
C16_SuccessInStartOrder ==
  /\ \A i, j \in Successes : i < j => dispatched[i].run <= dispatched[j].run
  /\ ((\A r \in Runs : pc[r] = "done") /\ Successes # {}) =>
       LET last == CHOOSE i \in Successes : \A j \in Successes : j <= i
       IN \A j \in Successes : dispatched[j].run <= dispatched[last].run

\* The store's configuration has load_config_file set to false.
LoadConfigFileOff(stored) ==
  IsMap(stored) /\ Has(stored, "load_config_file") /\ Get(stored, "load_config_file") = Bool(FALSE)

\* What the claim says of the run that finished last.
SkipsFileOnlyWhenOff ==
  LET stored == settled.stored
      fetches == {i \in DOMAIN requests : requests[i].run = settled.run}
      published == {i \in DOMAIN RunActions(settled.run) :
                      RunActions(settled.run)[i].type = CONFIG_SUCCESS}
  IN IF LoadConfigFileOff(stored)
       THEN /\ fetches = {}
            /\ settled.loadedConfig = Obj(<<>>, <<>>)
            /\ \A i \in published :
                 RunActions(settled.run)[i] = configLoaded(applyDefaults(stored))
            /\ (published # {}) = PreloadedUsable(stored)
       ELSE /\ Cardinality(fetches) = 1
            /\ \A i \in fetches : requests[i].url = getConfigUrl(configLinkEl)

\* C17 (as stated in the claim): with load_config_file false in the preloaded
\* configuration loadConfig fetches nothing, loads the empty document and
\* publishes the preloaded configuration, validated and with defaults
\* filled; with any other value it fetches the configuration URL.
C17_LoadConfigFileFalseSkipsFetch ==
  settled # None => SkipsFileOnlyWhenOff

\* C17 (amended): the same, for a load with window.CMS_CONFIG not set.
C17_SkipsFetchOnNetworkPath ==
  (settled # None /\ ~Truthy(CMS_CONFIG)) => SkipsFileOnlyWhenOff

\* A load whose preloaded configuration sets load_config_file to false has
\* published that configuration with defaults filled, without any fetch.
C17_Witness ==
  /\ settled # None
  /\ ~Truthy(CMS_CONFIG)
  /\ LoadConfigFileOff(settled.stored)
  /\ requests = <<>>
  /\ \E i \in DOMAIN RunActions(settled.run) :
       RunActions(settled.run)[i] = configLoaded(applyDefaults(settled.stored))

====
